---- MODULE Spec2Model ----
(***************************************************************************)
(* Value Study: the posterisation pipeline (buildLUT, applyLUT,            *)
(* extractGrayscale of src/src/utils/imageProcessing.ts) and the App       *)
(* component that drives it (src/src/App.tsx).                             *)
(*                                                                         *)
(* Two specifications share the variables:                                 *)
(*   SpecPure  calls buildLUT and applyLUT on bounded inputs;              *)
(*   Spec      is the App: React state, refs, canvases, the browser's      *)
(*             animation-frame callback list and the image loads in        *)
(*             flight (FairSpec adds the scheduling fairness).             *)
(***************************************************************************)
EXTENDS Integers, Sequences, FiniteSets, TLC

VARIABLES
  levels,          \* App.tsx:10 useState(5); SpecPure: buildLUT's argument
  contrast,        \* App.tsx:11 useState(0); SpecPure: buildLUT's argument
  pc,              \* SpecPure: position of the call sequence ("app" in Spec)
  lutSource,       \* SpecPure: "none" | "buildLUT" | "given"
  lut,             \* SpecPure: the 256-entry table in hand
  gray,            \* SpecPure: applyLUT's grayData argument
  dims,            \* SpecPure: applyLUT's width and height arguments
  processed,       \* SpecPure: applyLUT's result (an ImageData)
  image,           \* App.tsx:9 useState(null): the loaded Image, or Null
  rendered,        \* the image, levels and contrast of the last render
                   \* whose effects have run (what the closures captured)
  grayDataRef,     \* App.tsx:20
  dimensionsRef,   \* App.tsx:21
  rafRef,          \* App.tsx:22: Null or the handle of the scheduled frame
  frameCallbacks,  \* the browser's list of animation frame callbacks
  nextHandle,      \* the handle requestAnimationFrame returns next
  canvas,          \* App.tsx:15 canvasRef: width, height, pixels
  originalCanvas,  \* App.tsx:16
  emojiCanvas,     \* App.tsx:17
  heartCanvas,     \* App.tsx:18
  favicon,         \* href of the document's link[rel~='icon']
  loading,         \* Images created by handleFile whose onload is to come
  created,         \* number of Images created by handleFile
  changes,         \* number of setLevels and setContrast calls
  extractions      \* history: extractGrayscale calls on the main image

pureVars == <<pc, lutSource, lut, gray, dims, processed>>
appVars == <<image, rendered, grayDataRef, dimensionsRef, rafRef,
             frameCallbacks, nextHandle, canvas, originalCanvas, emojiCanvas,
             heartCanvas, favicon, loading, created, changes, extractions>>
vars == <<levels, contrast, pureVars, appVars>>

Null == [null |-> TRUE]

\* F applied to the value of a (of a and b): the argument is evaluated once,
\* however often F uses it
Once(F(_), a) == CHOOSE r \in { F(v) : v \in {a} } : TRUE
Once2(F(_, _), a, b) == CHOOSE r \in { F(v, w) : v \in {a}, w \in {b} } : TRUE

(***************************************************************************)
(* JavaScript numbers.  buildLUT computes in IEEE doubles; a number is     *)
(* kept here as an exact fraction n/d (d > 0), +Infinity or NaN.  Over     *)
(* buildLUT's inputs (levels in {3,5,9}, contrast in -100..100, i in       *)
(* 0..255) every value handed to Math.round lies more than 5e-6 from a     *)
(* half-integer, and step and k*step are dyadic, so the doubles round to   *)
(* the same integers as the exact fractions.                               *)
(***************************************************************************)
Fin(n, d) == [k |-> "fin", n |-> n, d |-> d]
PosInf == [k |-> "inf", n |-> 1, d |-> 0]
NaN == [k |-> "nan", n |-> 0, d |-> 0]

\* a / b for a finite and b finite and >= 0
JSDiv(a, b) ==
  IF b.k = "inf" THEN Fin(0, 1)
  ELSE IF b.n = 0 THEN (IF a.n = 0 THEN NaN ELSE PosInf)
  ELSE Fin(a.n * b.d, a.d * b.n)

\* a * b for a finite and >= 0
JSMul(a, b) ==
  IF b.k = "inf" THEN (IF a.n = 0 THEN NaN ELSE PosInf)
  ELSE Fin(a.n * b.n, a.d * b.d)

JSAdd(a, b) == Fin(a.n * b.d + b.n * a.d, a.d * b.d)

JSLess(a, b) == a.n * b.d < b.n * a.d

MathMin(a, b) == IF JSLess(b, a) THEN b ELSE a
MathMax(a, b) == IF JSLess(a, b) THEN b ELSE a

\* Math.round: the nearest integer, halves towards +Infinity; NaN stays NaN
MathRound(a) ==
  IF a.k = "fin" THEN Fin((2 * a.n + a.d) \div (2 * a.d), 1) ELSE a

\* the store into a Uint8Array element: NaN and the infinities become 0,
\* an integer is taken modulo 256
ToUint8(a) == IF a.k = "fin" THEN (a.n \div a.d) % 256 ELSE 0

\* the store into a Uint8ClampedArray element
ToUint8Clamped(v) == IF v < 0 THEN 0 ELSE IF v > 255 THEN 255 ELSE v

VALUE_PRESETS == {3, 5, 9}

\* the slider positions the App is driven through (App.tsx:274-276 allows
\* every integer of -100..100)
ContrastSamples == {-100, 0, 100}

\* variant of Factor: a percentage scale, which is 0 at contrast -100
FactorPercent(c) == Fin(c + 100, 100)

Factor(c) == Fin(259 * (c + 255), 255 * (259 - c))

\* variant of Step: one tone too many (255 / levels)
StepOffByOne(l) == JSDiv(Fin(255, 1), Fin(l, 1))

\* variant of Step: a zero divisor replaced by 1
StepGuarded(l) == JSDiv(Fin(255, 1), Fin(IF l - 1 = 0 THEN 1 ELSE l - 1, 1))

Step(l) == JSDiv(Fin(255, 1), Fin(l - 1, 1))

ContrastValue(l, c, i) ==
  IF c # 0 THEN JSAdd(JSMul(Fin(i - 128, 1), Factor(c)), Fin(128, 1))
  ELSE Fin(i, 1)

\* variant of ClampValue: the clamp to [0,255] left out
ClampValueMissing(val) == val

ClampValue(val) == MathMax(Fin(0, 1), MathMin(Fin(255, 1), val))

Quantize(val, step) ==
  Once(MathRound, Once2(JSMul, Once(MathRound, JSDiv(val, step)), step))

\* the loop of buildLUT (imageProcessing.ts:15-19)
LUTLoop(l, c) ==
  [i \in 0..255 |->
     Once(ToUint8, Once2(Quantize,
                         Once(ClampValue, ContrastValue(l, c, i)),
                         Step(l)))]

\* the tables for the presets and the sampled slider positions, built once
TabulatedLUTs ==
  [p \in VALUE_PRESETS \X ContrastSamples |-> LUTLoop(p[1], p[2])]

buildLUT(l, c) ==
  IF <<l, c>> \in DOMAIN TabulatedLUTs THEN TabulatedLUTs[<<l, c>>]
  ELSE LUTLoop(l, c)

ImageData(data, width, height) ==
  [data |-> data, width |-> width, height |-> height]

\* variant of applyLUT: the tone written to the alpha channel too
applyLUTToneInAlpha(grayData, table, width, height) ==
  LET output == [j \in 1..(Len(grayData) * 4) |->
                   ToUint8Clamped(table[grayData[((j - 1) \div 4) + 1]])]
  IN ImageData(output, width, height)

applyLUT(grayData, table, width, height) ==
  LET output == [j \in 1..(Len(grayData) * 4) |->
                   IF (j - 1) % 4 = 3 THEN ToUint8Clamped(255)
                   ELSE Once(ToUint8Clamped,
                             table[grayData[((j - 1) \div 4) + 1]])]
  IN ImageData(output, width, height)

(***************************************************************************)
(* extractGrayscale rounds 0.299*R + 0.587*G + 0.114*B, a sum of doubles   *)
(* that reaches exact halves (22.5 for R,G,B = 0,36,12), where the         *)
(* rounding of the double products and sums decides the result.  The       *)
(* doubles are therefore computed bit for bit: a value is a fixed-point    *)
(* integer in units of 2^-56, held in four limbs of 20 bits (least         *)
(* significant first), and every product and sum is rounded to 53          *)
(* significant bits, ties to even.                                         *)
(***************************************************************************)
Limb == 2^20

\* the doubles nearest 0.299, 0.587 and 0.114, in units of 2^-56
Weight299 == <<67108, 276824, 19595, 0>>
Weight587 == <<33552, 662700, 38469, 0>>
Weight114 == <<947913, 109051, 7471, 0>>

Carry(l) ==
  LET a1 == l[1]
      a2 == l[2] + (a1 \div Limb)
      a3 == l[3] + (a2 \div Limb)
      a4 == l[4] + (a3 \div Limb)
  IN <<a1 % Limb, a2 % Limb, a3 % Limb, a4>>

BitsOf(x) == CHOOSE n \in 0..31 : x < 2^n /\ (n = 0 \/ 2^(n - 1) <= x)

BitLength(l) ==
  IF l[4] # 0 THEN 60 + BitsOf(l[4])
  ELSE IF l[3] # 0 THEN 40 + BitsOf(l[3])
  ELSE IF l[2] # 0 THEN 20 + BitsOf(l[2])
  ELSE BitsOf(l[1])

\* the nearest double (53 significant bits, ties to even) of a value < 2^12
RoundToDouble(l) ==
  LET n == BitLength(l)
  IN IF n <= 53 THEN l
     ELSE LET ulp == 2^(n - 53)
              rem == l[1] % ulp
              base == l[1] - rem
              up == \/ 2 * rem > ulp
                    \/ 2 * rem = ulp /\ (base \div ulp) % 2 = 1
          IN Carry(<<base + (IF up THEN ulp ELSE 0), l[2], l[3], l[4]>>)

\* sample * weight and a + b, as doubles
DoubleTimes(sample, w) ==
  Once(RoundToDouble, Once(Carry, [i \in 1..4 |-> sample * w[i]]))
DoublePlus(a, b) ==
  Once(RoundToDouble, Once(Carry, [i \in 1..4 |-> a[i] + b[i]]))

\* Math.round of a non-negative double: floor(x + 1/2), computed exactly
RoundDouble(l) ==
  LET s == Carry(<<l[1], l[2], l[3] + 2^15, l[4]>>)
  IN (s[4] * Limb + s[3]) \div 2^16

\* variant of Luma: the plain average of the three channels
LumaAverage(r, g, b) == (2 * (r + g + b) + 3) \div 6

\* Math.round(0.299 * r + 0.587 * g + 0.114 * b)
RoundedLuma(r, g, b) ==
  Once(RoundDouble,
       Once2(DoublePlus,
             Once2(DoublePlus, DoubleTimes(r, Weight299), DoubleTimes(g, Weight587)),
             DoubleTimes(b, Weight114)))

\* the colours of the sample images and glyphs, with their luma worked
\* out once
SampleColours ==
  { <<255, 0, 0>>, <<0, 36, 12>>, <<200, 200, 200>>, <<0, 0, 250>>,
    <<255, 255, 255>>, <<231, 76, 60>>, <<0, 0, 0>> }

TabulatedLuma == [p \in SampleColours |-> RoundedLuma(p[1], p[2], p[3])]

Luma(r, g, b) ==
  IF <<r, g, b>> \in SampleColours THEN TabulatedLuma[<<r, g, b>>]
  ELSE RoundedLuma(r, g, b)

extractGrayscale(imageData) ==
  [i \in 1..(imageData.width * imageData.height) |->
     Luma(imageData.data[4 * i - 3], imageData.data[4 * i - 2],
          imageData.data[4 * i - 1]) % 256]

(***************************************************************************)
(* SpecPure: the pure functions on bounded inputs.                         *)
(***************************************************************************)
MaxLen == 2

LevelInputs == VALUE_PRESETS \cup {1}
ContrastRange == -100..100
GraySamples == {0, 76, 128, 255}

GivenTables ==
  { [i \in 0..255 |-> i],
    [i \in 0..255 |-> 255 - i],
    [i \in 0..255 |-> IF i = 76 THEN 128 ELSE 7] }

FullRamp == [j \in 1..256 |-> j - 1]
FullRampDown == [j \in 1..257 |-> IF j = 257 THEN 0 ELSE 256 - j]

GrayBuffers ==
  UNION { [1..n -> GraySamples] : n \in 1..MaxLen } \cup {FullRamp, FullRampDown}

InitPure ==
  /\ levels = 5
  /\ contrast = 0
  /\ pc = "start"
  /\ lutSource = "none"
  /\ lut = <<>>
  /\ gray = <<>>
  /\ dims = Null
  /\ processed = Null
  /\ image = Null /\ rendered = Null /\ grayDataRef = Null
  /\ dimensionsRef = Null /\ rafRef = Null /\ frameCallbacks = {}
  /\ nextHandle = 1 /\ canvas = Null /\ originalCanvas = Null
  /\ emojiCanvas = Null /\ heartCanvas = Null /\ favicon = Null
  /\ loading = {} /\ created = 0 /\ changes = 0 /\ extractions = 0

CallBuildLUT ==
  /\ pc = "start"
  /\ \E l \in LevelInputs, c \in ContrastRange :
       /\ levels' = l
       /\ contrast' = c
       /\ lut' = buildLUT(l, c)
  /\ lutSource' = "buildLUT"
  /\ pc' = "lut"
  /\ UNCHANGED <<gray, dims, processed, appVars>>

GiveTable ==
  /\ pc = "start"
  /\ \E t \in GivenTables : lut' = t
  /\ lutSource' = "given"
  /\ pc' = "lut"
  /\ UNCHANGED <<levels, contrast, gray, dims, processed, appVars>>

GiveGray ==
  /\ pc = "lut"
  /\ \E g \in GrayBuffers :
       /\ gray' = g
       /\ \E w \in 1..Len(g) :
            /\ Len(g) % w = 0
            /\ dims' = [width |-> w, height |-> Len(g) \div w]
  /\ pc' = "gray"
  /\ UNCHANGED <<levels, contrast, lutSource, lut, processed, appVars>>

CallApplyLUT ==
  /\ pc = "gray"
  /\ processed' = applyLUT(gray, lut, dims.width, dims.height)
  /\ pc' = "applied"
  /\ UNCHANGED <<levels, contrast, lutSource, lut, gray, dims, appVars>>

NextPure == CallBuildLUT \/ GiveTable \/ GiveGray \/ CallApplyLUT

SpecPure == InitPure /\ [][NextPure]_vars

(***************************************************************************)
(* Spec: the App component.                                                *)
(*                                                                         *)
(* React keeps the state (image, levels, contrast); a setter only records  *)
(* the new value, and the render that follows runs the effects whose       *)
(* dependencies changed.  The three effects depend on the same values, so  *)
(* they run in the same commits (Render).  Between a setter or an onload   *)
(* and that render the browser may run the frame callback scheduled        *)
(* earlier (Frame).  JavaScript is single-threaded: each handler runs to   *)
(* completion.                                                             *)
(***************************************************************************)

\* the user's actions taken into account: files picked plus control changes
MaxEvents == 3

\* the side of the two icon canvases (32 and 24 in App.tsx:56 and 99): the
\* effects treat every pixel alike, and the model keeps the sides small
EmojiSize == 2
HeartSize == 1

\* the files the user may pick: two decoded images and one non-image
Files ==
  { [type |-> "image/png", width |-> 1, height |-> 1,
     data |-> <<255, 0, 0, 255>>],
    [type |-> "image/jpeg", width |-> 2, height |-> 1,
     data |-> <<0, 36, 12, 255, 200, 200, 200, 255>>],
    [type |-> "text/plain", width |-> 0, height |-> 0, data |-> <<>>] }

IsImageType(file) == file.type \in {"image/png", "image/jpeg"}

\* what fillText leaves on a cleared size x size canvas: transparent,
\* half-covered and opaque pixels of two colours
GlyphPixels(size, ink, shift) ==
  [j \in 1..(4 * size * size) |->
     LET px == (j - 1) \div 4
         ch == (j - 1) % 4
         kind == (px + shift) % 3
     IN IF kind = 0 THEN 0
        ELSE IF ch = 3 THEN (IF kind = 1 THEN 128 ELSE 255)
        ELSE ink[ch + 1]]

EmojiGlyph == GlyphPixels(EmojiSize, <<231, 76, 60>>, 0)
HeartGlyph == GlyphPixels(HeartSize, <<0, 36, 12>>, 1)

\* a canvas element: its size and its pixels (RGBA, row-major); no pixels
\* stands for the transparent black of a canvas never drawn on
Canvas(width, height, data) ==
  [width |-> width, height |-> height, data |-> data]

BlankCanvas == Canvas(300, 150, <<>>)

\* ctx.getImageData(0, 0, canvas.width, canvas.height)
GetImageData(c) == ImageData(c.data, c.width, c.height)

\* ctx.putImageData(imageData, 0, 0): the pixels of imageData replace those
\* of the canvas where the two overlap
PutImageData(c, imageData) ==
  IF imageData.width = c.width /\ imageData.height = c.height
  THEN Canvas(c.width, c.height, imageData.data)
  ELSE Canvas(c.width, c.height,
         [j \in 1..(4 * c.width * c.height) |->
            LET px == (j - 1) \div 4
                x == px % c.width
                y == px \div c.width
            IN IF x < imageData.width /\ y < imageData.height
               THEN imageData.data[4 * (y * imageData.width + x) + ((j - 1) % 4) + 1]
               ELSE IF c.data = <<>> THEN 0 ELSE c.data[j]])

\* canvas.toDataURL(): the PNG of the canvas' pixels
ToDataURL(c) == [mime |-> "image/png", width |-> c.width, height |-> c.height,
                 pixels |-> c.data]

Uint8Array(bytes) == [bytes |-> bytes]

\* cancelAnimationFrame(handle)
CancelAnimationFrame(list, handle) == { cb \in list : cb.handle # handle.id }

\* variant of ProcessImage: grayscale extracted again from the canvas
ProcessImageExtractingAgain(l, c) ==
  IF grayDataRef = Null \/ dimensionsRef = Null
  THEN UNCHANGED <<canvas, grayDataRef, dimensionsRef, extractions>>
  ELSE LET again == extractGrayscale(GetImageData(canvas))
       IN /\ canvas' = PutImageData(canvas,
                         applyLUT(again, buildLUT(l, c),
                                  dimensionsRef.width, dimensionsRef.height))
          /\ grayDataRef' = Uint8Array(again)
          /\ extractions' = extractions + 1
          /\ UNCHANGED dimensionsRef

\* processImage of the render with levels l and contrast c (App.tsx:24-35)
ProcessImage(l, c) ==
  IF grayDataRef = Null \/ dimensionsRef = Null
  THEN UNCHANGED <<canvas, grayDataRef, dimensionsRef, extractions>>
  ELSE /\ canvas' = PutImageData(canvas,
                      applyLUT(grayDataRef.bytes, buildLUT(l, c),
                               dimensionsRef.width, dimensionsRef.height))
       /\ UNCHANGED <<grayDataRef, dimensionsRef, extractions>>

\* variant of MainEffect: the pending frame is not cancelled
MainEffectWithoutCancel ==
  /\ frameCallbacks' = frameCallbacks \cup
        {[handle |-> nextHandle, levels |-> levels, contrast |-> contrast]}
  /\ rafRef' = [id |-> nextHandle]
  /\ nextHandle' = nextHandle + 1

\* variant of MainEffect: a pending frame is kept instead of replaced
MainEffectKeepingPending ==
  /\ IF rafRef # Null
     THEN UNCHANGED <<frameCallbacks, rafRef, nextHandle>>
     ELSE /\ frameCallbacks' = frameCallbacks \cup
             {[handle |-> nextHandle, levels |-> levels, contrast |-> contrast]}
          /\ rafRef' = [id |-> nextHandle]
          /\ nextHandle' = nextHandle + 1

\* the effect on [processImage, image] (App.tsx:37-50): the cleanup of the
\* previous run, then the body
MainEffect ==
  LET afterCleanup == IF rafRef # Null
                      THEN CancelAnimationFrame(frameCallbacks, rafRef)
                      ELSE frameCallbacks
      afterCancel == IF rafRef # Null
                     THEN CancelAnimationFrame(afterCleanup, rafRef)
                     ELSE afterCleanup
  IN /\ frameCallbacks' = afterCancel \cup
          {[handle |-> nextHandle, levels |-> levels, contrast |-> contrast]}
     /\ rafRef' = [id |-> nextHandle]
     /\ nextHandle' = nextHandle + 1

\* the canvas after the icon's value study (App.tsx:70-81 and 113-124): the
\* alpha of every pixel saved, the grayscale looked up, the alpha put back
RestoredAlpha(drawn, lookedUp) ==
  LET originalAlpha == [i \in 1..(drawn.width * drawn.height) |->
                          GetImageData(drawn).data[4 * i]]
      restored == [j \in 1..Len(lookedUp.data) |->
                     IF (j - 1) % 4 = 3
                     THEN ToUint8Clamped(originalAlpha[((j - 1) \div 4) + 1])
                     ELSE lookedUp.data[j]]
  IN PutImageData(drawn, ImageData(restored, lookedUp.width, lookedUp.height))

\* variant of IconEffect: the alpha applyLUT wrote (255) is kept
IconEffectOpaque(size, glyph) ==
  LET drawn == Canvas(size, size, glyph)
  IN IF image # Null
     THEN PutImageData(drawn,
            applyLUT(extractGrayscale(GetImageData(drawn)),
                     buildLUT(levels, contrast), size, size))
     ELSE drawn

\* the canvas an icon effect leaves (App.tsx:52-82 and 95-125): sized,
\* drawn, and once an image is loaded posterised with the alpha restored
IconEffect(size, glyph) ==
  LET drawn == Canvas(size, size, glyph)
  IN IF image # Null
     THEN Once2(RestoredAlpha, drawn,
                applyLUT(extractGrayscale(GetImageData(drawn)),
                         buildLUT(levels, contrast), size, size))
     ELSE drawn

EmojiEffect ==
  /\ emojiCanvas' = IconEffect(EmojiSize, EmojiGlyph)
  /\ favicon' = ToDataURL(emojiCanvas')

HeartEffect == heartCanvas' = IconEffect(HeartSize, HeartGlyph)

Init ==
  /\ levels = 5
  /\ contrast = 0
  /\ image = Null
  /\ rendered = [image |-> Null, levels |-> 5, contrast |-> 0]
  /\ grayDataRef = Null
  /\ dimensionsRef = Null
  /\ rafRef = [id |-> 1]
  /\ frameCallbacks = {[handle |-> 1, levels |-> 5, contrast |-> 0]}
  /\ nextHandle = 2
  /\ canvas = BlankCanvas
  /\ originalCanvas = BlankCanvas
  /\ emojiCanvas = Canvas(EmojiSize, EmojiSize, EmojiGlyph)
  /\ heartCanvas = Canvas(HeartSize, HeartSize, HeartGlyph)
  /\ favicon = ToDataURL(Canvas(EmojiSize, EmojiSize, EmojiGlyph))
  /\ loading = {}
  /\ created = 0
  /\ changes = 0
  /\ extractions = 0
  /\ pc = "app"
  /\ lutSource = "none"
  /\ lut = <<>>
  /\ gray = <<>>
  /\ dims = Null
  /\ processed = Null

\* the preset buttons (App.tsx:250-264), shown once an image is rendered
SetLevels ==
  /\ rendered.image # Null
  /\ created + changes < MaxEvents
  /\ \E preset \in VALUE_PRESETS \ {levels} : levels' = preset
  /\ changes' = changes + 1
  /\ UNCHANGED <<contrast, pureVars, image, rendered, grayDataRef,
                 dimensionsRef, rafRef, frameCallbacks, nextHandle, canvas,
                 originalCanvas, emojiCanvas, heartCanvas, favicon, loading,
                 created, extractions>>

\* the contrast slider (App.tsx:271-278)
SetContrast ==
  /\ rendered.image # Null
  /\ created + changes < MaxEvents
  /\ \E v \in ContrastSamples \ {contrast} : contrast' = v
  /\ changes' = changes + 1
  /\ UNCHANGED <<levels, pureVars, image, rendered, grayDataRef,
                 dimensionsRef, rafRef, frameCallbacks, nextHandle, canvas,
                 originalCanvas, emojiCanvas, heartCanvas, favicon, loading,
                 created, extractions>>

\* handleFile (App.tsx:128-155) up to img.src: a non-image is ignored
HandleFile ==
  \E file \in Files :
    IF IsImageType(file)
    THEN /\ created + changes < MaxEvents
         /\ loading' = loading \cup {[id |-> created + 1, file |-> file]}
         /\ created' = created + 1
         /\ UNCHANGED <<levels, contrast, pureVars, image, rendered,
                        grayDataRef, dimensionsRef, rafRef, frameCallbacks,
                        nextHandle, canvas, originalCanvas, emojiCanvas,
                        heartCanvas, favicon, changes, extractions>>
    ELSE UNCHANGED vars

\* variant of OnLoadImage: width and height swapped in dimensionsRef
OnLoadImageSwapped(img) ==
  LET drawn == Canvas(img.file.width, img.file.height, img.file.data)
  IN /\ canvas' = drawn
     /\ originalCanvas' = drawn
     /\ grayDataRef' = Uint8Array(extractGrayscale(GetImageData(drawn)))
     /\ dimensionsRef' = [width |-> img.file.height, height |-> img.file.width]
     /\ extractions' = extractions + 1
     /\ image' = img

\* img.onload (App.tsx:132-153): both canvases sized and drawn, the
\* grayscale and the dimensions cached, the image set
OnLoadImage(img) ==
  LET drawn == Canvas(img.file.width, img.file.height, img.file.data)
  IN /\ canvas' = drawn
     /\ originalCanvas' = drawn
     /\ grayDataRef' = Uint8Array(extractGrayscale(GetImageData(drawn)))
     /\ dimensionsRef' = [width |-> img.file.width, height |-> img.file.height]
     /\ extractions' = extractions + 1
     /\ image' = img

OnLoad ==
  \E img \in loading :
    /\ OnLoadImage(img)
    /\ loading' = loading \ {img}
    /\ UNCHANGED <<levels, contrast, pureVars, rendered, rafRef,
                   frameCallbacks, nextHandle, emojiCanvas, heartCanvas,
                   favicon, created, changes>>

\* the render after a change of image, levels or contrast, with the
\* effects it runs
Render ==
  /\ pc = "app"
  /\ [image |-> image, levels |-> levels, contrast |-> contrast] # rendered
  /\ rendered' = [image |-> image, levels |-> levels, contrast |-> contrast]
  /\ MainEffect
  /\ EmojiEffect
  /\ HeartEffect
  /\ UNCHANGED <<levels, contrast, pureVars, image, grayDataRef,
                 dimensionsRef, canvas, originalCanvas, loading, created,
                 changes, extractions>>

\* the browser runs a scheduled frame callback (App.tsx:41-44)
Frame ==
  \E cb \in frameCallbacks :
    /\ frameCallbacks' = frameCallbacks \ {cb}
    /\ ProcessImage(cb.levels, cb.contrast)
    /\ rafRef' = Null
    /\ UNCHANGED <<levels, contrast, pureVars, image, rendered, nextHandle,
                   originalCanvas, emojiCanvas, heartCanvas, favicon, loading,
                   created, changes>>

Next == SetLevels \/ SetContrast \/ HandleFile \/ OnLoad \/ Render \/ Frame

Spec == Init /\ [][Next]_vars

\* the browser keeps producing frames and React renders every update
FairSpec == Spec /\ WF_vars(Render) /\ WF_vars(Frame)

(***************************************************************************)
(* Claims about the App (checked under Spec; C9 under FairSpec).           *)
(***************************************************************************)
Current == [image |-> image, levels |-> levels, contrast |-> contrast]

\* a step in which the browser runs frame callbacks: callbacks leave the
\* list and requestAnimationFrame is not called
FrameRuns == nextHandle' = nextHandle /\ frameCallbacks' # frameCallbacks

\* the callback the last run of the effect scheduled
LatestRequest ==
  [handle |-> nextHandle - 1, levels |-> rendered.levels,
   contrast |-> rendered.contrast]

C1_AtMostOnePending ==
  /\ Cardinality(frameCallbacks) <= 1
  /\ frameCallbacks = IF rafRef = Null THEN {} ELSE {LatestRequest}
  /\ rafRef # Null => rafRef.id = nextHandle - 1

C1_SupersededNeverRuns ==
  /\ FrameRuns =>
       /\ frameCallbacks \ frameCallbacks' = {LatestRequest}
       /\ rafRef' = Null
  /\ nextHandle' # nextHandle =>
       frameCallbacks' =
         {[handle |-> nextHandle, levels |-> levels', contrast |-> contrast']}

\* C1: at every moment at most one transform is pending on a frame
\* callback; when the effect runs again (levels, contrast or image changed)
\* the pending callback is cancelled and replaced, and the only callback
\* that ever runs is the one the latest run of the effect scheduled.
C1_LatestRequestWins ==
  [](C1_AtMostOnePending) /\ [][C1_SupersededNeverRuns]_vars

\* the frame scheduled for the first render of the image was cancelled by
\* the render for levels 9 before it ran: the canvas still shows the image
C1_Witness ==
  /\ rendered.image # Null
  /\ rendered.levels = 9
  /\ canvas.data = rendered.image.file.data
  /\ rafRef = [id |-> 3]
  /\ frameCallbacks = {[handle |-> 3, levels |-> 9, contrast |-> 0]}

C2_OncePerLoad == extractions = created - Cardinality(loading)

C2_CacheReplacedOnLoadOnly ==
  (\/ grayDataRef' # grayDataRef
   \/ dimensionsRef' # dimensionsRef
   \/ extractions' # extractions) =>
     /\ loading' # loading
     /\ image' \in loading
     /\ extractions' = extractions + 1
     /\ grayDataRef' = Uint8Array(extractGrayscale(
           ImageData(image'.file.data, image'.file.width, image'.file.height)))
     /\ dimensionsRef' = [width |-> image'.file.width,
                          height |-> image'.file.height]

\* C2: for the main image extractGrayscale has run exactly once per image
\* loaded; the cached grayscale and dimensions are left as they are by
\* every change of levels or contrast and every processImage run, and are
\* replaced together, by the extraction of the new image, in its onload.
C2_GrayscaleCachedPerImage ==
  [](C2_OncePerLoad) /\ [][C2_CacheReplacedOnLoadOnly]_vars

C2_Witness ==
  /\ changes = 2 /\ extractions = 1
  /\ grayDataRef = Uint8Array(<<76>>)
  /\ rafRef = Null
  /\ levels = 3 /\ contrast = 100
  /\ canvas.data = <<0, 0, 0, 255>>

\* the icon canvas holds the glyph posterised with its own alpha
IconPosterised(c, glyph) ==
  LET table == buildLUT(rendered.levels, rendered.contrast)
  IN \A i \in 1..(c.width * c.height) :
       /\ c.data[4 * i] = glyph[4 * i]
       /\ c.data[4 * i - 3] = table[Luma(glyph[4 * i - 3], glyph[4 * i - 2],
                                        glyph[4 * i - 1])]
       /\ c.data[4 * i - 2] = c.data[4 * i - 3]
       /\ c.data[4 * i - 1] = c.data[4 * i - 3]
       /\ glyph[4 * i] = 0 => c.data[4 * i] = 0

\* C6: once an image is loaded, every pixel the emoji and heart effects
\* write back has the alpha it had before the transform, for every levels
\* and contrast; R, G and B are the looked-up tone, and a fully
\* transparent pixel stays fully transparent.
C6_IconAlphaPreserved ==
  rendered.image # Null =>
     /\ IconPosterised(emojiCanvas, EmojiGlyph)
     /\ IconPosterised(heartCanvas, HeartGlyph)
     /\ Len(emojiCanvas.data) = 4 * EmojiSize * EmojiSize
     /\ Len(heartCanvas.data) = 4 * HeartSize * HeartSize

C6_Witness ==
  /\ rendered.image # Null /\ rendered.levels = 3 /\ rendered.contrast = 100
  /\ emojiCanvas.data[4] = 0
  /\ EmojiGlyph[8] = 128 /\ emojiCanvas.data[8] = 128
  /\ EmojiGlyph[5] = 231 /\ emojiCanvas.data[5] = 128
  /\ heartCanvas.data = <<0, 0, 0, 128>>

Settled ==
  /\ rafRef = Null
  /\ frameCallbacks = {}
  /\ rendered = Current
  /\ grayDataRef # Null /\ dimensionsRef # Null
  /\ canvas = Canvas(dimensionsRef.width, dimensionsRef.height,
                     applyLUT(grayDataRef.bytes, buildLUT(levels, contrast),
                              dimensionsRef.width, dimensionsRef.height).data)

\* C9: with frames and renders kept going, once an image is loaded the App
\* comes to rest with no transform pending (rafRef null) and the canvas
\* holding applyLUT(cached gray, buildLUT(latest levels, latest contrast));
\* a result for earlier values is never what the canvas is left with.
C9_EventuallyLatest == <>[](image # Null => Settled)

C9_Witness ==
  /\ Settled /\ image # Null
  /\ changes = 2 /\ levels = 9 /\ contrast = -100
  /\ canvas.data = <<96, 96, 96, 255>>

\* C10: the cached grayscale and the cached dimensions are both null or
\* both set, and then the grayscale has width * height samples and the
\* canvas is width x height, so that processImage hands applyLUT a buffer
\* that matches the dimensions it passes.
C10_CacheConsistent ==
  \/ grayDataRef = Null /\ dimensionsRef = Null
  \/ /\ grayDataRef # Null /\ dimensionsRef # Null
     /\ Len(grayDataRef.bytes) = dimensionsRef.width * dimensionsRef.height
     /\ canvas.width = dimensionsRef.width
     /\ canvas.height = dimensionsRef.height
     /\ Len(canvas.data) = 4 * Len(grayDataRef.bytes)

\* the second image picked loaded first and was rendered, then the first
\* one loaded, and the frame scheduled earlier ran before the next render
C10_Witness ==
  /\ extractions = 2 /\ image # Null /\ image.id = 1
  /\ rendered.image # Null /\ rendered.image.id = 2
  /\ rafRef = Null
  /\ dimensionsRef = [width |-> 2, height |-> 1]
  /\ rendered.image.file.width = 1
  /\ canvas.data # image.file.data
  /\ canvas.data = applyLUT(grayDataRef.bytes,
                            buildLUT(rendered.levels, rendered.contrast),
                            2, 1).data

(***************************************************************************)
(* Claims about the pure functions (checked under SpecPure).               *)
(***************************************************************************)
Built == lutSource = "buildLUT"

\* the tones round(k * 255 / (l - 1)), k in 0..l-1
Tones(l) == { (2 * 255 * k + (l - 1)) \div (2 * (l - 1)) : k \in 0..(l - 1) }

\* the R, G and B samples of an RGBA sequence
ToneSamples(data) == { data[j] : j \in { x \in 1..Len(data) : (x - 1) % 4 # 3 } }

\* C3: for levels in {3,5,9} and every contrast in -100..100, every entry of
\* buildLUT(levels, contrast) is one of the `levels` tones
\* round(k * 255/(levels-1)), k in 0..levels-1, hence within [0,255].
C3_EntriesAreTones ==
  (Built /\ levels \in VALUE_PRESETS) =>
     LET tones == Tones(levels)
     IN /\ DOMAIN lut = 0..255
        /\ \A i \in 0..255 : lut[i] \in tones /\ lut[i] \in 0..255

C3_Witness ==
  /\ Built /\ levels = 9 /\ contrast = 100
  /\ lut[0] = 0 /\ lut[110] = 96 /\ lut[135] = 159 /\ lut[255] = 255

\* C4: for levels in {3,5,9}, applyLUT with buildLUT(levels, 0) on a buffer
\* holding every value 0..255 yields exactly `levels` distinct tones, with
\* input 0 giving tone 0 and input 255 giving tone 255.
C4_ToneCount ==
  (/\ pc = "applied" /\ Built /\ levels \in VALUE_PRESETS /\ contrast = 0
   /\ { gray[j] : j \in 1..Len(gray) } = 0..255) =>
     /\ Cardinality(ToneSamples(processed.data)) = levels
     /\ \A j \in 1..Len(gray) :
          /\ gray[j] = 0 => processed.data[4 * j - 3] = 0
          /\ gray[j] = 255 => processed.data[4 * j - 3] = 255

C4_Witness ==
  /\ pc = "applied" /\ Built /\ levels = 9 /\ contrast = 0
  /\ gray = FullRampDown
  /\ ToneSamples(processed.data) = {0, 32, 64, 96, 128, 159, 191, 223, 255}

C5_PixelsLookedUp ==
  pc = "applied" =>
     /\ Len(processed.data) = 4 * Len(gray)
     /\ processed.width = dims.width /\ processed.height = dims.height
     /\ \A i \in 1..Len(gray) :
          /\ processed.data[4 * i - 3] = lut[gray[i]]
          /\ processed.data[4 * i - 2] = lut[gray[i]]
          /\ processed.data[4 * i - 1] = lut[gray[i]]
          /\ processed.data[4 * i] = 255

C5_ArgumentsKept == pc = "gray" => (gray' = gray /\ lut' = lut)

\* C5: applyLUT(g, lut, w, h), with n = Len(g) = w * h, returns 4n samples
\* in g's pixel order with R = G = B = lut[g[i]] and A = 255 for every
\* pixel i; the call leaves g and lut as they were.
C5_ApplyLUT == [](C5_PixelsLookedUp) /\ [][C5_ArgumentsKept]_vars

C5_Witness ==
  /\ pc = "applied" /\ gray = <<76>> /\ lut[76] = 128
  /\ dims = [width |-> 1, height |-> 1]
  /\ processed.data = <<128, 128, 128, 255>>

LutTones == { lut[i] : i \in 0..255 }

\* C8 as stated: at contrast = -100 buildLUT(levels, -100) maps every input
\* to the single tone that 128 quantizes to, for each levels in {3,5,9}.
C8_FlatAtMinusHundred ==
  (Built /\ contrast = -100 /\ levels \in VALUE_PRESETS) =>
     \A i \in 0..255 : lut[i] = lut[128]

\* C8 amended: at contrast = -100 the factor is 40145/91545 (about 0.44,
\* not about 0). buildLUT(3, -100) maps every input to 128; buildLUT(5, -100)
\* yields the tones {64, 128, 191} and buildLUT(9, -100) the tones
\* {64, 96, 128, 159, 191}; 128 maps to 128 for each.
C8_CompressedAtMinusHundred ==
  (Built /\ contrast = -100 /\ levels \in VALUE_PRESETS) =>
     /\ Factor(contrast) = Fin(40145, 91545)
     /\ lut[128] = 128
     /\ levels = 3 => LutTones = {128}
     /\ levels = 5 => LutTones = {64, 128, 191}
     /\ levels = 9 => LutTones = {64, 96, 128, 159, 191}

C8_Witness ==
  /\ Built /\ contrast = -100 /\ levels = 5
  /\ lut[0] = 64 /\ lut[128] = 128 /\ lut[255] = 191

====
